---- MODULE Spec2Model ----
(***************************************************************************)
(* Model of src/prompts.py: the "Student Homework Helper" HTTP service.    *)
(*                                                                         *)
(* State: the in-memory per-subject conversation history, the requests     *)
(* being handled and the coroutine                                         *)
(* that currently holds the asyncio event loop.  All POST handlers are     *)
(* `async def` coroutines: a handler runs without interruption from one    *)
(* `await` to the next, and the only `await` in a POST handler is          *)
(* `await file.read()` of /image-analysis.                                 *)
(*                                                                         *)
(* Text.  Questions, model replies and messages are TLA+ strings.  A       *)
(* character of the Arabic block U+0600..U+06FF is written "$hh", hh being *)
(* the two lower-case hexadecimal digits of its low byte (U+0645 is        *)
(* "$45"); every other character stands for itself.  "$" occurs nowhere    *)
(* else, so substring search on the written form agrees with substring     *)
(* search on the text.                                                     *)
(***************************************************************************)
EXTENDS Integers, Sequences, FiniteSets, TLC

(***************************************************************************)
(* Bounds of the model.                                                    *)
(***************************************************************************)
MaxRequests == 2
MaxClock == 1

(***************************************************************************)
(* Strings: str.lower(), str.upper(), str.strip(), `in`, slicing.          *)
(***************************************************************************)
LowerCaseLetters == "abcdefghijklmnopqrstuvwxyz"
UpperCaseLetters == "ABCDEFGHIJKLMNOPQRSTUVWXYZ"
Digits == "0123456789"

CharAt(str, i) == SubSeq(str, i, i)

IndexIn(c, alphabet) ==
    IF \E i \in 1..Len(alphabet) : CharAt(alphabet, i) = c
    THEN CHOOSE i \in 1..Len(alphabet) : CharAt(alphabet, i) = c
    ELSE 0

LowerChar(c) ==
    IF IndexIn(c, UpperCaseLetters) > 0
    THEN CharAt(LowerCaseLetters, IndexIn(c, UpperCaseLetters))
    ELSE c

UpperChar(c) ==
    IF IndexIn(c, LowerCaseLetters) > 0
    THEN CharAt(UpperCaseLetters, IndexIn(c, LowerCaseLetters))
    ELSE c

RECURSIVE Lower(_)
Lower(str) ==
    IF str = "" THEN ""
    ELSE LowerChar(CharAt(str, 1)) \o Lower(SubSeq(str, 2, Len(str)))

RECURSIVE Upper(_)
Upper(str) ==
    IF str = "" THEN ""
    ELSE UpperChar(CharAt(str, 1)) \o Upper(SubSeq(str, 2, Len(str)))

IsSpace(c) == c \in {" ", "\n", "\t", "\r"}

RECURSIVE Strip(_)
Strip(str) ==
    IF str = "" THEN ""
    ELSE IF IsSpace(CharAt(str, 1)) THEN Strip(SubSeq(str, 2, Len(str)))
    ELSE IF IsSpace(CharAt(str, Len(str))) THEN Strip(SubSeq(str, 1, Len(str) - 1))
    ELSE str

\* k in str
Contains(str, k) ==
    \E i \in 1..(Len(str) - Len(k) + 1) : SubSeq(str, i, i + Len(k) - 1) = k

\* str[:n]
Prefix(str, n) == IF Len(str) > n THEN SubSeq(str, 1, n) ELSE str

\* seq[start:] for any integer start, as Python slices a list
PySliceFrom(seq, start) ==
    LET n == Len(seq)
        from == IF start < 0
                THEN (IF n + start < 0 THEN 0 ELSE n + start)
                ELSE (IF start > n THEN n ELSE start)
    IN  SubSeq(seq, from + 1, n)

(***************************************************************************)
(* Regular expressions.  The patterns of the source are alternations of    *)
(* literals, literals joined by \s+, \bph\b and one anchored alternation.  *)
(***************************************************************************)
Lit(s) == [kind |-> "search", parts |-> <<s>>]
Spaced(ps) == [kind |-> "search", parts |-> ps]
Word(s) == [kind |-> "word", parts |-> <<s>>]
Full(s) == [kind |-> "full", parts |-> <<s>>]

\* \w : letters, digits, underscore; an Arabic letter ("$hh") is a word character
IsWordChar(c) ==
    \/ IndexIn(c, LowerCaseLetters) > 0
    \/ IndexIn(c, UpperCaseLetters) > 0
    \/ IndexIn(c, Digits) > 0
    \/ c \in {"_", "$"}

\* \b at the gap before position i of str (1 <= i <= Len(str) + 1)
IsBoundary(str, i) ==
    LET before == i > 1 /\ IsWordChar(CharAt(str, i - 1))
        after == i <= Len(str) /\ IsWordChar(CharAt(str, i))
    IN  before # after

\* positions just after a match of parts[1] \s+ parts[2] \s+ ... starting at i
RECURSIVE MatchEnds(_, _, _)
MatchEnds(str, parts, i) ==
    LET p == Head(parts)
        e == i + Len(p)
    IN  IF e - 1 > Len(str) \/ SubSeq(str, i, e - 1) # p THEN {}
        ELSE IF Len(parts) = 1 THEN {e}
        ELSE UNION { MatchEnds(str, Tail(parts), j) :
                       j \in { k \in (e + 1)..Len(str) :
                                 \A m \in e..(k - 1) : IsSpace(CharAt(str, m)) } }

\* re.search(rx, str)
ReSearch(rx, str) ==
    CASE rx.kind = "search" ->
            \E i \in 1..Len(str) : MatchEnds(str, rx.parts, i) # {}
      [] rx.kind = "word" ->
            \E i \in 1..Len(str) :
                /\ MatchEnds(str, rx.parts, i) # {}
                /\ IsBoundary(str, i)
                /\ IsBoundary(str, i + Len(rx.parts[1]))
      \* ^(...)$ : "$" also matches just before a final newline
      [] rx.kind = "full" -> str \in {rx.parts[1], rx.parts[1] \o "\n"}

AnySearch(keywords, str) ==
    \E i \in 1..Len(keywords) : ReSearch(keywords[i], str)

social_patterns ==
    << {Lit("$45$31$2d$28"), Lit("$47$44$27"), Lit("$27$44$33$44$27$45"),
        Lit("$23$47$44$27"), Lit("$47$27$4a"), Lit("hello"), Lit("hi"), Lit("hey"),
        Lit("greetings")},
       {Lit("$34$43$31"), Lit("thanks"), Lit("thank you"), Lit("thx"), Lit("$45$2a$34$43$31")},
       {Lit("$31$27$26$39"), Lit("$2c$45$4a$44"), Lit("$45$45$2a$27$32"),
        Lit("$39$38$4a$45"), Lit("$2d$44$48"), Lit("$43$48$4a$33"), Lit("great"),
        Lit("awesome"), Lit("amazing"), Lit("excellent"), Lit("good"), Lit("nice"),
        Lit("perfect")},
       {Lit("$43$4a$41 $2d$27$44$43"), Lit("how are you"), Lit("$27$32$4a$43"),
        Lit("$39$27$45$44 $27$4a$47")},
       {Lit("$35$28$27$2d"), Lit("$45$33$27$21"), Lit("good morning"), Lit("good evening")},
       {Lit("$48$2f$27$39"), Lit("$28$27$4a"), Lit("bye"), Lit("see you"),
        Lit("$45$39 $27$44$33$44$27$45$29")},
       {Lit("$27$46$2a $34$27$37$31"), Lit("you are smart"), Lit("you are good")},
       {Lit("$28$2d$28$43"), Lit("$27$2d$28$43"), Lit("i love you")},
       {Lit("$27$46$27 $33$39$4a$2f"), Lit("i am happy"), Lit("$45$28$33$48$37")},
       {Full("ok"), Full("okay"), Full("$2a$45$27$45"), Full("$2d$27$36$31"),
        Full("$45$27$34$4a")} >>

mp_chemistry_keywords ==
    << Word("ph"), Lit("acid"), Lit("base"), Lit("chemical"), Lit("reaction"), 
       Lit("element"), Lit("compound"), Lit("molecule"), Lit("atom"), Lit("h2o"), 
       Lit("co2"), Lit("nacl"), Lit("ionic"), Lit("covalent"), Lit("oxidation"), 
       Lit("reduction"), Lit("catalyst"), Lit("equilibrium"), Lit("molarity"), 
       Lit("$43$4a$45$4a$27$21"), Lit("$2a$41$27$39$44"), Lit("$2d$45$36"), 
       Lit("$42$27$39$2f$29"), Lit("$39$46$35$31"), Lit("$45$31$43$28"), 
       Lit("$2c$32$4a$21"), Lit("$23$43$33$2f$29"), Lit("$27$2e$2a$32$27$44"), 
       Lit("$45$2d$44$48$44"), Lit("$2a$31$43$4a$32"), 
       Lit("$45$39$27$2f$44$29 $43$4a$45$4a$27$26$4a$29") >>

mp_arabic_keywords ==
    << Lit("$23$39$31$28"), Lit("$25$39$31$27$28"), Lit("$46$2d$48"), 
       Lit("$28$44$27$3a$29"), Lit("$27$33$2a$39$27$31$29"), Lit("$2a$34$28$4a$47"), 
       Lit("$43$46$27$4a$29"), Lit("$37$28$27$42"), Lit("$2c$46$27$33"), Lit("$33$2c$39"), 
       Lit("$42$35$4a$2f$29"), Lit("$34$39$31"), Lit("$23$2f$28"), Lit("grammar"), 
       Lit("rhetoric"), Lit("metaphor"), Lit("poetry"), Lit("literature") >>

ch_math_physics_keywords ==
    << Lit("derivative"), Lit("integral"), Lit("calculus"), Lit("algebra"), Lit("geometry"), 
       Spaced(<<"equation", "of", "motion">>), Lit("velocity"), Lit("acceleration"), 
       Lit("force"), Lit("newton"), Lit("energy"), Lit("momentum"), Lit("friction"), 
       Lit("gravity"), Spaced(<<"electric", "field">>), Lit("magnetic"), Lit("wave"), 
       Lit("frequency"), Lit("circuit"), Lit("current"), Lit("voltage"), Lit("resistance"), 
       Lit("kirchhoff"), Lit("ohm"), Lit("ampere"), Lit("watt"), Lit("capacitor"), 
       Lit("inductor"), Lit("$2a$41$27$36$44"), Lit("$2a$43$27$45$44"), 
       Lit("$47$46$2f$33$29"), Lit("$2c$28$31"), Lit("$33$31$39$29"), 
       Lit("$2a$33$27$31$39"), Lit("$42$48$29"), Lit("$46$4a$48$2a$46"), 
       Lit("$37$27$42$29"), Lit("$32$2e$45"), Lit("$27$2d$2a$43$27$43"), 
       Lit("$2c$27$30$28$4a$29"), Lit("$2f$27$26$31$29"), Lit("$2a$4a$27$31"), 
       Lit("$2c$47$2f"), Lit("$45$42$27$48$45$29"), Lit("$43$4a$31$34$48$41"), 
       Lit("$23$48$45") >>

ch_arabic_keywords ==
    << Lit("$23$39$31$28"), Lit("$25$39$31$27$28"), Lit("$46$2d$48"), 
       Lit("$28$44$27$3a$29"), Lit("$27$33$2a$39$27$31$29"), Lit("$2a$34$28$4a$47"), 
       Lit("grammar"), Lit("rhetoric"), Lit("poetry"), Lit("literature") >>

ch_chemistry_keywords ==
    << Word("ph"), Lit("acid"), Lit("base"), Lit("chemical"), Lit("reaction"), 
       Lit("element"), Lit("compound"), Lit("molecule"), Lit("atom"), Lit("h2o"), 
       Lit("co2"), Lit("nacl"), Lit("ionic"), Lit("covalent"), Lit("oxidation"), 
       Lit("reduction"), Lit("catalyst"), Lit("equilibrium"), Lit("molarity"), 
       Lit("stoichiometry"), Spaced(<<"periodic", "table">>), Lit("organic"), 
       Lit("inorganic"), Lit("$43$4a$45$4a$27$21"), Lit("$2a$41$27$39$44"), 
       Lit("$2d$45$36"), Lit("$42$27$39$2f$29"), Lit("$39$46$35$31"), Lit("$45$31$43$28"), 
       Lit("$2c$32$4a$21"), Lit("$30$31$29"), Lit("$23$43$33$2f$29"), 
       Lit("$27$2e$2a$32$27$44"), Lit("$45$2d$41$32"), Lit("$45$2d$44$48$44"), 
       Lit("$2a$31$43$4a$32"), Lit("$45$39$27$2f$44$29 $43$4a$45$4a$27$26$4a$29") >>

messages ==
    [ math_physics |-> [ en |-> "I'm sorry, but I specialize in Mathematics and Physics only. Please "
        \o "ask me questions about Math or Physics.",
        ar |-> "$22$33$41$0c $44$43$46$46$4a $45$2a$2e$35$35 $41$4a "
            \o "$27$44$31$4a$27$36$4a$27$2a $48$27$44$41$4a$32$4a$27$21 $41$42$37. "
            \o "$4a$31$2c$49 $33$24$27$44$4a $39$46 $27$44$31$4a$27$36$4a$27$2a "
            \o "$23$48 $27$44$41$4a$32$4a$27$21." ],
      chemistry |-> [ en |-> "I'm sorry, but I specialize in Chemistry only. Please ask me "
          \o "questions about Chemistry.",
        ar |-> "$22$33$41$0c $44$43$46$46$4a $45$2a$2e$35$35 $41$4a "
            \o "$27$44$43$4a$45$4a$27$21 $41$42$37. $4a$31$2c$49 $33$24$27$44$4a "
            \o "$39$46 $27$44$43$4a$45$4a$27$21." ],
      arabic |-> [ en |-> "I'm sorry, but I specialize in Arabic language only. Please ask me "
          \o "questions about Arabic.",
        ar |-> "$22$33$41$0c $44$43$46$46$4a $45$2a$2e$35$35 $41$4a $27$44$44$3a$29 "
            \o "$27$44$39$31$28$4a$29 $41$42$37. $4a$31$2c$49 $33$24$27$44$4a $39$46 "
            \o "$27$44$44$3a$29 $27$44$39$31$28$4a$29." ] ]

(***************************************************************************)
(* The external generative model: a call returns a text or raises.         *)
(***************************************************************************)
PyNone == "None"

Reply(t) == [raised |-> FALSE, text |-> t, error |-> ""]
Raise(msg) == [raised |-> TRUE, text |-> "", error |-> msg]

ModelError == "429 Resource has been exhausted"

VerdictTexts == {"RELEVANT", "NOT_RELEVANT", " relevant\n", "ARABIC", "NOT_ARABIC"}

ShortAnswer == "4"
Block50 == "The answer follows from the definition, step by. "
LongAnswer == Block50 \o Block50 \o Block50 \o Block50 \o "And so on."

AnswerTexts == {LongAnswer}

ValidationOutcomes == {Reply(t) : t \in VerdictTexts} \cup {Raise(ModelError)}
GenerationOutcomes == {Reply(t) : t \in AnswerTexts} \cup {Raise(ModelError)}

(***************************************************************************)
(* Requests.                                                               *)
(***************************************************************************)
Subjects == {"math_physics", "chemistry", "arabic", "image_analysis"}

TextEndpoints == {"/math-physics", "/chemistry", "/arabic"}
ImageEndpoint == "/image-analysis"
PostEndpoints == TextEndpoints \cup {ImageEndpoint}

SubjectOf(endpoint) ==
    CASE endpoint = "/math-physics" -> "math_physics"
      [] endpoint = "/chemistry" -> "chemistry"
      [] endpoint = "/arabic" -> "arabic"
      [] endpoint = "/image-analysis" -> "image_analysis"

\* question texts sent by clients
Questions ==
    { "which acid is stronger",
      "energy change at pH 7",
      "$27$2d$33$28 $33$31$39$29 $27$44$2c$33$45",
      "explain grammar rules",
      "what is 2+2" }

ImageQuestions == {PyNone, "Hello"}
ContentTypes == {"image/png", "text/plain", PyNone}

(***************************************************************************)
(* Validation of questions.                                                *)
(***************************************************************************)
is_social_interaction(question) ==
    \E i \in 1..Len(social_patterns) :
        \E rx \in social_patterns[i] : ReSearch(rx, Lower(question))

\* result of a validator: the verdict it returns, whether it called the
\* external model and whether that call raised
Verdict(valid, called, failed) ==
    [valid |-> valid, called |-> called, failed |-> failed]

\* mutant: a failed validation call lets the question through
validate_math_physics_question_FailOpen(question, outcome) ==
    IF is_social_interaction(question) THEN Verdict(TRUE, FALSE, FALSE)
    ELSE LET question_lower == Lower(question)
         IN  IF AnySearch(mp_chemistry_keywords, question_lower)
             THEN Verdict(FALSE, FALSE, FALSE)
             ELSE IF AnySearch(mp_arabic_keywords, question_lower)
             THEN Verdict(FALSE, FALSE, FALSE)
             ELSE IF outcome.raised THEN Verdict(TRUE, TRUE, TRUE)
             ELSE Verdict(Contains(Upper(Strip(outcome.text)), "RELEVANT"), TRUE, FALSE)

validate_math_physics_question(question, outcome) ==
    IF is_social_interaction(question) THEN Verdict(TRUE, FALSE, FALSE)
    ELSE LET question_lower == Lower(question)
         IN  IF AnySearch(mp_chemistry_keywords, question_lower)
             THEN Verdict(FALSE, FALSE, FALSE)
             ELSE IF AnySearch(mp_arabic_keywords, question_lower)
             THEN Verdict(FALSE, FALSE, FALSE)
             ELSE IF outcome.raised THEN Verdict(FALSE, TRUE, TRUE)
             ELSE Verdict(Contains(Upper(Strip(outcome.text)), "RELEVANT"), TRUE, FALSE)

\* mutant: the exclusion keywords are checked before the chemistry keywords
validate_chemistry_question_ExclusionFirst(question, outcome) ==
    IF is_social_interaction(question) THEN Verdict(TRUE, FALSE, FALSE)
    ELSE LET question_lower == Lower(question)
         IN  IF AnySearch(ch_math_physics_keywords, question_lower)
             THEN Verdict(FALSE, FALSE, FALSE)
             ELSE IF AnySearch(ch_arabic_keywords, question_lower)
             THEN Verdict(FALSE, FALSE, FALSE)
             ELSE IF AnySearch(ch_chemistry_keywords, question_lower)
             THEN Verdict(TRUE, FALSE, FALSE)
             ELSE IF outcome.raised THEN Verdict(FALSE, TRUE, TRUE)
             ELSE Verdict(Contains(Upper(Strip(outcome.text)), "RELEVANT"), TRUE, FALSE)

validate_chemistry_question(question, outcome) ==
    IF is_social_interaction(question) THEN Verdict(TRUE, FALSE, FALSE)
    ELSE LET question_lower == Lower(question)
         IN  IF AnySearch(ch_chemistry_keywords, question_lower)
             THEN Verdict(TRUE, FALSE, FALSE)
             ELSE IF AnySearch(ch_math_physics_keywords, question_lower)
             THEN Verdict(FALSE, FALSE, FALSE)
             ELSE IF AnySearch(ch_arabic_keywords, question_lower)
             THEN Verdict(FALSE, FALSE, FALSE)
             ELSE IF outcome.raised THEN Verdict(FALSE, TRUE, TRUE)
             ELSE Verdict(Contains(Upper(Strip(outcome.text)), "RELEVANT"), TRUE, FALSE)

validate_with_ai_arabic_detection(question, outcome) ==
    IF outcome.raised THEN Verdict(FALSE, TRUE, TRUE)
    ELSE Verdict(Upper(Strip(outcome.text)) = "ARABIC", TRUE, FALSE)

\* mutant: the social check is skipped
validate_arabic_question_NoSocial(question, outcome) ==
    validate_with_ai_arabic_detection(question, outcome)

validate_arabic_question(question, outcome) ==
    IF is_social_interaction(question) THEN Verdict(TRUE, FALSE, FALSE)
    ELSE validate_with_ai_arabic_detection(question, outcome)

Validate(endpoint, question, outcome) ==
    CASE endpoint = "/math-physics" -> validate_math_physics_question(question, outcome)
      [] endpoint = "/chemistry" -> validate_chemistry_question(question, outcome)
      [] endpoint = "/arabic" -> validate_arabic_question(question, outcome)

\* the verdicts, evaluated once for the questions and outcomes of the model
ValidateTable ==
    [endpoint \in TextEndpoints |->
        [question \in Questions |->
            [outcome \in ValidationOutcomes |-> Validate(endpoint, question, outcome)]]]

\* re.search(r'[\u0600-\u06FF]', text)
HasArabicChar(text) == Contains(text, "$")

create_rejection_message(subject, question_language) ==
    IF HasArabicChar(question_language)
    THEN messages[subject].ar
    ELSE messages[subject].en

(***************************************************************************)
(* History.                                                                *)
(***************************************************************************)
HistoryCap == 50
ContextLimit == 3
AnswerPrefixLen == 200

NewEntry(id, subject, question, answer, now) ==
    [id |-> id, question |-> question, answer |-> answer,
     timestamp |-> now, subject |-> subject]

\* mutant: the entry is inserted at the front of the list
AppendEntry_Prepends(history, subject, entry) ==
    [history EXCEPT ![subject] = <<entry>> \o @]

\* mutant: every entry goes to one shared list
AppendEntry_SharedList(history, subject, entry) ==
    [history EXCEPT !["math_physics"] = Append(@, entry)]

\* conversation_history[subject].append(entry)
AppendEntry(history, subject, entry) ==
    [history EXCEPT ![subject] = Append(@, entry)]

\* mutant: the trim is skipped
TrimHistory_Never(history, subject) == history

\* mutant: the first 50 entries are kept instead of the last 50
TrimHistory_KeepsOldest(history, subject) ==
    IF Len(history[subject]) > HistoryCap
    THEN [history EXCEPT ![subject] = SubSeq(@, 1, HistoryCap)]
    ELSE history

\* if len(...) > 50: conversation_history[subject] = conversation_history[subject][-50:]
TrimHistory(history, subject) ==
    IF Len(history[subject]) > HistoryCap
    THEN [history EXCEPT ![subject] = PySliceFrom(@, -HistoryCap)]
    ELSE history

ContextLine(entry) ==
    "Previous Q: " \o entry.question \o "\nPrevious A: "
        \o Prefix(entry.answer, AnswerPrefixLen) \o "...\n\n"

RECURSIVE JoinContext(_)
JoinContext(entries) ==
    IF entries = <<>> THEN ""
    ELSE ContextLine(Head(entries)) \o JoinContext(Tail(entries))

\* mutant: the first entries of the list are taken instead of the last
get_recent_context_Oldest(history, subject, limit) ==
    LET n == Len(history[subject])
        recent_history == SubSeq(history[subject], 1, IF n < limit THEN n ELSE limit)
    IN  JoinContext(recent_history)

get_recent_context(history, subject, limit) ==
    LET recent_history == PySliceFrom(history[subject], -limit)
    IN  JoinContext(recent_history)

(***************************************************************************)
(* State.                                                                  *)
(***************************************************************************)
VARIABLES
    conversation_history,   \* subject -> list of entries
    saved,                  \* number of entries created so far
    received,               \* number of requests received so far
    reqs,                   \* request number -> handler coroutine
    loop,                   \* the coroutine running on the event loop, 0 if none
    response                \* the response returned by the step just taken

vars == <<conversation_history, saved, received, reqs, loop, response>>

RequestIds == 1..MaxRequests

IdleRequest ==
    [pc |-> "idle", endpoint |-> "", question |-> "", content_type |-> "",
     verdict |-> "", val_calls |-> 0, gen_calls |-> 0, failures |-> {},
     context |-> "", answer |-> "", before |-> <<>>]

NoResponse ==
    [status |-> 0, answer |-> "", detail |-> "", subject |-> "", timestamp |-> 0,
     request |-> IdleRequest]

\* ChatResponse(answer=..., subject=..., timestamp=datetime.now().isoformat(), ...)
ChatResponse(request, answer, subject, now) ==
    [status |-> 200, answer |-> answer, detail |-> "", subject |-> subject,
     timestamp |-> now, request |-> request]

\* raise HTTPException(status_code=..., detail=...)
HTTPException(request, status_code, detail) ==
    [status |-> status_code, answer |-> "", detail |-> detail, subject |-> "",
     timestamp |-> 0, request |-> request]

\* str(e) of an HTTPException: "<status>: <detail>", or "" in the releases
\* of the framework whose HTTPException defines no __str__
HTTPExceptionStr(status_text, detail) == {status_text \o ": " \o detail, ""}

ErrorPrefix(endpoint) ==
    IF endpoint = ImageEndpoint
    THEN "Error analyzing image: "
    ELSE "Error processing question: "

AttributeErrorText == "'NoneType' object has no attribute 'startswith'"
ReadErrorText == "I/O operation on closed file."

StartsWith(str, p) == Len(str) >= Len(p) /\ SubSeq(str, 1, Len(p)) = p

\* question or "Image analysis (no specific question)"
QuestionText(request) ==
    IF request.endpoint = ImageEndpoint /\ request.question \in {PyNone, ""}
    THEN "Image analysis (no specific question)"
    ELSE request.question

(***************************************************************************)
(* Initial state: the service has run for a while.  The lists of           *)
(* PrefilledSubjects hold the entries of HistoryCap - 1 accepted requests, *)
(* the other lists are still empty as at start-up.                         *)
(***************************************************************************)
PrefilledSubjects == {"math_physics", "image_analysis"}

SubjectOrder == <<"math_physics", "chemistry", "arabic", "image_analysis">>

InitLen(subject) == IF subject \in PrefilledSubjects THEN HistoryCap - 1 ELSE 0

RECURSIVE IdsBefore(_)
IdsBefore(k) ==
    IF k = 1 THEN 0 ELSE IdsBefore(k - 1) + InitLen(SubjectOrder[k - 1])

Prefilled ==
    [s \in Subjects |->
        LET k == CHOOSE i \in 1..4 : SubjectOrder[i] = s
        IN  [i \in 1..InitLen(s) |->
                NewEntry(IdsBefore(k) + i, s, "what is 2+2", ShortAnswer, 0)]]

Init ==
    /\ conversation_history = Prefilled
    /\ saved = IdsBefore(5)
    /\ received = 0
    /\ reqs = [r \in RequestIds |-> IdleRequest]
    /\ loop = 0
    /\ response = NoResponse

(***************************************************************************)
(* datetime.now() reads the local wall clock as naive local time.  The     *)
(* clock is outside the program: it advances, and it is stepped backwards  *)
(* by a clock adjustment or at the end of daylight saving time, so a       *)
(* reading is any time of Times, whatever the readings before it were.     *)
(***************************************************************************)
Times == 0..MaxClock

(***************************************************************************)
(* Handlers.  Finish(r, resp) ends coroutine r with a response.        *)
(***************************************************************************)
Finish(r, resp) ==
    /\ response' = resp
    /\ reqs' = [reqs EXCEPT ![r] = [IdleRequest EXCEPT !.pc = "done"]]
    /\ loop' = 0

Goto(r, request, pc) == reqs' = [reqs EXCEPT ![r] = [request EXCEPT !.pc = pc]]

\* a POST to /math-physics, /chemistry or /arabic starts its handler
Receive(endpoint, question) ==
    /\ loop = 0
    /\ received < MaxRequests
    /\ received' = received + 1
    /\ reqs' = [reqs EXCEPT ![received + 1] =
                  [IdleRequest EXCEPT !.pc = "validate", !.endpoint = endpoint,
                                      !.question = question]]
    /\ loop' = received + 1
    /\ UNCHANGED <<conversation_history, saved>>
    /\ response' = NoResponse

\* a POST to /image-analysis starts its handler
ReceiveImage(content_type, question) ==
    /\ loop = 0
    /\ received < MaxRequests
    /\ received' = received + 1
    /\ reqs' = [reqs EXCEPT ![received + 1] =
                  [IdleRequest EXCEPT !.pc = "check", !.endpoint = ImageEndpoint,
                                      !.question = question,
                                      !.content_type = content_type]]
    /\ loop' = received + 1
    /\ UNCHANGED <<conversation_history, saved>>
    /\ response' = NoResponse

\* if not validate_..._question(request.question)
StepValidate(r) ==
    /\ loop = r
    /\ reqs[r].pc = "validate"
    /\ \E outcome \in ValidationOutcomes :
          LET v == ValidateTable[reqs[r].endpoint][reqs[r].question][outcome]
              request == [reqs[r] EXCEPT
                  !.val_calls = IF v.called THEN @ + 1 ELSE @,
                  !.verdict = IF v.called /\ ~v.failed THEN outcome.text ELSE "",
                  !.failures = IF v.failed THEN @ \cup {"validation"} ELSE @]
          IN  Goto(r, request, IF v.valid THEN "context" ELSE "reject")
    /\ UNCHANGED <<conversation_history, saved, received, loop>>
    /\ response' = NoResponse

\* mutant: the rejection is saved like an answer
StepReject_Saves(r) ==
    /\ loop = r
    /\ reqs[r].pc = "reject"
    /\ LET subject == SubjectOf(reqs[r].endpoint)
           rejection_message == create_rejection_message(subject, reqs[r].question)
           label == IF reqs[r].endpoint = "/arabic" THEN "rejected" ELSE subject
       IN  \E now \in Times :
               /\ Finish(r, ChatResponse(reqs[r], rejection_message, label, now))
               /\ conversation_history' =
                      TrimHistory(AppendEntry(conversation_history, subject,
                                      NewEntry(saved + 1, subject, reqs[r].question,
                                               rejection_message, now)), subject)
    /\ saved' = saved + 1
    /\ UNCHANGED received

\* mutant: every rejection is labelled "rejected"
StepReject_LabelsRejected(r) ==
    /\ loop = r
    /\ reqs[r].pc = "reject"
    /\ LET subject == SubjectOf(reqs[r].endpoint)
           rejection_message == create_rejection_message(subject, reqs[r].question)
       IN  \E now \in Times :
               Finish(r, ChatResponse(reqs[r], rejection_message, "rejected", now))
    /\ UNCHANGED <<conversation_history, saved, received>>

\* return ChatResponse(answer=rejection_message, ...)
StepReject(r) ==
    /\ loop = r
    /\ reqs[r].pc = "reject"
    /\ LET subject == SubjectOf(reqs[r].endpoint)
           rejection_message == create_rejection_message(subject, reqs[r].question)
           label == IF reqs[r].endpoint = "/arabic" THEN "rejected" ELSE subject
       IN  \E now \in Times :
               Finish(r, ChatResponse(reqs[r], rejection_message, label, now))
    /\ UNCHANGED <<conversation_history, saved, received>>

\* mutant: the handler lets the HTTPException of an invalid upload through
StepCheckUpload_Returns400(r) ==
    /\ loop = r
    /\ reqs[r].pc = "check"
    /\ LET request == reqs[r]
           failed == [request EXCEPT !.failures = @ \cup {"upload"}]
       IN  IF request.content_type = PyNone
           THEN Finish(r, HTTPException(failed, 500,
                       ErrorPrefix(request.endpoint) \o AttributeErrorText))
           ELSE IF ~StartsWith(request.content_type, "image/")
           THEN Finish(r, HTTPException(failed, 400, "Please upload a valid image file"))
           ELSE /\ Goto(r, request, "read")
                /\ loop' = 0
                /\ response' = NoResponse
    /\ UNCHANGED <<conversation_history, saved, received>>

\* if not file.content_type.startswith('image/'): raise HTTPException(400)
\* await file.read()
StepCheckUpload(r) ==
    /\ loop = r
    /\ reqs[r].pc = "check"
    /\ LET request == reqs[r]
           failed == [request EXCEPT !.failures = @ \cup {"upload"}]
       IN  IF request.content_type = PyNone
           THEN Finish(r, HTTPException(failed, 500,
                       ErrorPrefix(request.endpoint) \o AttributeErrorText))
           ELSE IF ~StartsWith(request.content_type, "image/")
           THEN \E text \in HTTPExceptionStr("400", "Please upload a valid image file") :
                    Finish(r, HTTPException(failed, 500,
                           ErrorPrefix(request.endpoint) \o text))
           ELSE /\ Goto(r, request, "read")
                /\ loop' = 0
                /\ response' = NoResponse
    /\ UNCHANGED <<conversation_history, saved, received>>

\* image_data = await file.read() completes and the coroutine resumes
StepRead(r) ==
    /\ loop = 0
    /\ reqs[r].pc = "read"
    /\ \/ /\ Goto(r, reqs[r], "context")
          /\ loop' = r
          /\ response' = NoResponse
       \/ /\ response' = HTTPException([reqs[r] EXCEPT !.failures = @ \cup {"read"}], 500,
                                   ErrorPrefix(reqs[r].endpoint) \o ReadErrorText)
          /\ reqs' = [reqs EXCEPT ![r] = [IdleRequest EXCEPT !.pc = "done"]]
          /\ loop' = 0
    /\ UNCHANGED <<conversation_history, saved, received>>

\* context = get_recent_context(subject)
StepContext(r) ==
    /\ loop = r
    /\ reqs[r].pc = "context"
    /\ Goto(r, [reqs[r] EXCEPT !.verdict = "", !.context =
                   get_recent_context(conversation_history,
                                      SubjectOf(reqs[r].endpoint), ContextLimit)],
            "generate")
    /\ UNCHANGED <<conversation_history, saved, received, loop>>
    /\ response' = NoResponse

\* mutant: a failed generation call is tried once more
StepGenerate_Retries(r) ==
    /\ loop = r
    /\ reqs[r].pc = "generate"
    /\ \E outcome \in GenerationOutcomes :
          LET request == [reqs[r] EXCEPT !.gen_calls = @ + 1] IN
          IF outcome.raised /\ reqs[r].gen_calls = 0
          THEN /\ Goto(r, request, "generate")
               /\ UNCHANGED loop
               /\ response' = NoResponse
          ELSE IF outcome.raised
          THEN Finish(r, HTTPException([request EXCEPT !.failures = @ \cup {"generation"}],
                                       500, ErrorPrefix(request.endpoint) \o outcome.error))
          ELSE /\ Goto(r, [request EXCEPT !.answer = outcome.text], "append")
               /\ UNCHANGED loop
               /\ response' = NoResponse
    /\ UNCHANGED <<conversation_history, saved, received>>

\* response = model.generate_content(prompt); answer = response.text
StepGenerate(r) ==
    /\ loop = r
    /\ reqs[r].pc = "generate"
    /\ \E outcome \in GenerationOutcomes :
          LET request == [reqs[r] EXCEPT !.gen_calls = @ + 1] IN
          IF outcome.raised
          THEN Finish(r, HTTPException([request EXCEPT !.failures = @ \cup {"generation"}],
                                       500, ErrorPrefix(request.endpoint) \o outcome.error))
          ELSE /\ Goto(r, [request EXCEPT !.answer = outcome.text], "append")
               /\ UNCHANGED loop
               /\ response' = NoResponse
    /\ UNCHANGED <<conversation_history, saved, received>>

\* mutant: the coroutine gives up the event loop between append and trim
StepAppend_Yields(r) ==
    /\ loop = r
    /\ reqs[r].pc = "append"
    /\ \E now \in Times :
       LET subject == SubjectOf(reqs[r].endpoint)
           entry == NewEntry(saved + 1, subject, QuestionText(reqs[r]),
                             reqs[r].answer, now)
       IN  /\ conversation_history' = AppendEntry(conversation_history, subject, entry)
           /\ Goto(r, [reqs[r] EXCEPT !.before = conversation_history[subject]], "trim")
    /\ saved' = saved + 1
    /\ loop' = 0
    /\ UNCHANGED received
    /\ response' = NoResponse

\* save_to_history: entry = {...}; conversation_history[subject].append(entry)
StepAppend(r) ==
    /\ loop = r
    /\ reqs[r].pc = "append"
    /\ \E now \in Times :
       LET subject == SubjectOf(reqs[r].endpoint)
           entry == NewEntry(saved + 1, subject, QuestionText(reqs[r]),
                             reqs[r].answer, now)
       IN  /\ conversation_history' = AppendEntry(conversation_history, subject, entry)
           /\ Goto(r, [reqs[r] EXCEPT !.before = conversation_history[subject]], "trim")
    /\ saved' = saved + 1
    /\ UNCHANGED <<received, loop>>
    /\ response' = NoResponse

\* save_to_history: keep only the last 50 conversations
StepTrim(r) ==
    /\ loop = r
    /\ reqs[r].pc = "trim"
    /\ conversation_history' = TrimHistory(conversation_history, SubjectOf(reqs[r].endpoint))
    /\ Goto(r, reqs[r], "respond")
    /\ UNCHANGED <<saved, received, loop>>
    /\ response' = NoResponse

\* return ChatResponse(answer=answer, ...)
StepRespond(r) ==
    /\ loop = r
    /\ reqs[r].pc = "respond"
    /\ \E now \in Times :
          Finish(r, ChatResponse(reqs[r], reqs[r].answer, SubjectOf(reqs[r].endpoint), now))
    /\ UNCHANGED <<conversation_history, saved, received>>

\* GET /history/{subject}?limit=...  The values of subject and limit a client
\* sends: a subject whose list is full or nearly so, one whose list is short,
\* and an unknown one; limit 0 and the default 10.
PathSubjects == {"math_physics", "chemistry", "biology"}
DefaultLimit == 10
Limits == {0, DefaultLimit}

HistoryPath(subject) == "/history/" \o subject

\* return {"subject": subject, "history": history[-limit:]}
HistoryResponse(subject, limit, history) ==
    [status |-> 200, answer |-> "", detail |-> "", subject |-> subject,
     timestamp |-> 0,
     request |-> [IdleRequest EXCEPT !.endpoint = HistoryPath(subject)],
     limit |-> limit, history |-> history]

\* the handler has no await: it starts when the event loop is free and runs
\* to its response
get_conversation_history(subject, limit) ==
    /\ loop = 0
    /\ received < MaxRequests
    /\ IF subject \notin DOMAIN conversation_history
       THEN response' = HTTPException([IdleRequest EXCEPT !.endpoint = HistoryPath(subject)],
                                      404, "Subject not found")
       ELSE LET history == conversation_history[subject]
            IN  response' = HistoryResponse(subject, limit, PySliceFrom(history, -limit))
    /\ received' = received + 1
    /\ reqs' = [reqs EXCEPT ![received + 1] = [IdleRequest EXCEPT !.pc = "done"]]
    /\ UNCHANGED <<conversation_history, saved, loop>>

Step(r) ==
    \/ StepValidate(r)
    \/ StepReject(r)
    \/ StepCheckUpload(r)
    \/ StepRead(r)
    \/ StepContext(r)
    \/ StepGenerate(r)
    \/ StepAppend(r)
    \/ StepTrim(r)
    \/ StepRespond(r)

Next ==
    \/ \E endpoint \in TextEndpoints, question \in Questions : Receive(endpoint, question)
    \/ \E content_type \in ContentTypes, question \in ImageQuestions :
          ReceiveImage(content_type, question)
    \/ \E r \in RequestIds : Step(r)
    \/ \E subject \in PathSubjects, limit \in Limits :
          get_conversation_history(subject, limit)

Spec == Init /\ [][Next]_vars

\* The event loop runs every coroutine that is ready to run.  Clients are
\* free to send no further request.
FairSpec ==
    /\ Spec
    /\ \A r \in RequestIds : WF_vars(Step(r))

(***************************************************************************)
(* Properties.                                                             *)
(***************************************************************************)
Saving(r) == reqs[r].pc = "trim"

\* the step just taken returned the response of a POST request
Responded == response.status # 0 /\ response.request.endpoint \in PostEndpoints

\* C1: whenever no call of save_to_history is between its append and its trim,
\* each of the four history lists holds at most 50 entries (and during such a
\* call the list holds at most 51).
C1_HistoryBounded ==
    \A s \in Subjects :
        /\ Len(conversation_history[s]) <= HistoryCap + 1
        /\ (\A r \in RequestIds : ~(Saving(r) /\ SubjectOf(reqs[r].endpoint) = s))
              => Len(conversation_history[s]) <= HistoryCap

\* a list that held 50 entries has been saved to and trimmed, and holds 50
C1_Witness ==
    \E r \in RequestIds :
        /\ reqs[r].pc = "respond"
        /\ Len(reqs[r].before) = HistoryCap
        /\ Len(conversation_history[SubjectOf(reqs[r].endpoint)]) = HistoryCap

\* C2: when save_to_history is called for a subject whose list holds 50
\* entries, the list it leaves is the previous list without its first entry,
\* in the same order, followed by the new entry.
C2_EvictsOldestOnly ==
    \A r \in RequestIds :
        (reqs[r].pc = "respond" /\ Len(reqs[r].before) = HistoryCap) =>
            LET h == conversation_history[SubjectOf(reqs[r].endpoint)]
                b == reqs[r].before
            IN  /\ Len(h) = HistoryCap
                /\ \A i \in 1..(HistoryCap - 1) : h[i] = b[i + 1]
                /\ h[HistoryCap].question = QuestionText(reqs[r])
                /\ h[HistoryCap].answer = reqs[r].answer
                /\ \A i \in 1..HistoryCap : h[HistoryCap] # b[i]

\* a save to a list of 50 entries has completed
C2_Witness ==
    \E r \in RequestIds :
        /\ reqs[r].pc = "respond"
        /\ Len(reqs[r].before) = HistoryCap
        /\ reqs[r].answer = LongAnswer

\* C3 as claimed: in each list, for positions i < j, entry i was saved before
\* entry j and its timestamp is not later than that of entry j.  (Both orders
\* are transitive, so it is stated of neighbouring positions.)
C3_ChronologicalTimestamps ==
    \A s \in Subjects :
        \A i \in 1..(Len(conversation_history[s]) - 1) :
            /\ conversation_history[s][i].id < conversation_history[s][i + 1].id
            /\ conversation_history[s][i].timestamp
                   <= conversation_history[s][i + 1].timestamp

\* C3 as amended: each list is in insertion order, also after trimming: for
\* positions i < j, entry i was saved before entry j.  (Timestamps are readings
\* of the local wall clock and need not follow that order.)
C3_InsertionOrder ==
    \A s \in Subjects :
        \A i \in 1..(Len(conversation_history[s]) - 1) :
            conversation_history[s][i].id < conversation_history[s][i + 1].id

\* a list has been trimmed and holds two entries saved since the initial state
C3_Witness ==
    \E s \in Subjects :
        LET h == conversation_history[s]
        IN  /\ Len(h) = HistoryCap
            /\ h[HistoryCap - 1].id > IdsBefore(5)
            /\ h[HistoryCap].id > h[HistoryCap - 1].id
            /\ \A r \in RequestIds : ~Saving(r)

\* C4: every entry of conversation_history[s] has its subject field equal to
\* s, and a step that changes the list of s is a step of a request to the
\* endpoint of s and leaves the other three lists unchanged.
C4_OneBucket ==
    /\ [](\A s \in Subjects :
            \A i \in 1..Len(conversation_history[s]) :
                conversation_history[s][i].subject = s)
    /\ [][\A s \in Subjects :
            conversation_history'[s] # conversation_history[s] =>
                /\ loop \in RequestIds
                /\ SubjectOf(reqs[loop].endpoint) = s
                /\ \A t \in Subjects \ {s} :
                      conversation_history'[t] = conversation_history[t]]_vars

\* an entry has been appended to the chemistry list while other lists hold
\* entries
C4_Witness ==
    \E r \in RequestIds :
        /\ Saving(r)
        /\ reqs[r].endpoint = "/chemistry"
        /\ Len(conversation_history["chemistry"]) = 1
        /\ conversation_history["chemistry"][1].subject = "chemistry"
        /\ Len(conversation_history["math_physics"]) >= HistoryCap - 1

\* the questions that match an exclusion keyword list of an endpoint
ExcludedQuestions ==
    [endpoint \in {"/math-physics", "/chemistry"} |->
        {question \in Questions :
            IF endpoint = "/math-physics"
            THEN \/ AnySearch(mp_chemistry_keywords, Lower(question))
                 \/ AnySearch(mp_arabic_keywords, Lower(question))
            ELSE \/ AnySearch(ch_math_physics_keywords, Lower(question))
                 \/ AnySearch(ch_arabic_keywords, Lower(question))}]

\* C5 as claimed: a request to /math-physics or /chemistry whose question
\* matches an exclusion keyword list of that endpoint is answered with the
\* fixed rejection message of the subject, and the model is not asked to
\* generate an answer.
C5_ExcludedQuestionRejected ==
    LET request == response.request
    IN  (/\ Responded
         /\ request.endpoint \in {"/math-physics", "/chemistry"}
         /\ request.question \in ExcludedQuestions[request.endpoint])
        => /\ response.status = 200
           /\ response.answer \in
                  {messages[SubjectOf(request.endpoint)].en,
                   messages[SubjectOf(request.endpoint)].ar}
           /\ request.gen_calls = 0

\* C6 as claimed: every request during which something failed (the upload
\* check, the read of the upload, the validation call or the generation call)
\* is answered with status 500 and a detail carrying the exception message.
C6_EveryFailureGives500 ==
    (Responded /\ response.request.failures # {}) =>
        /\ response.status = 500
        /\ StartsWith(response.detail, ErrorPrefix(response.request.endpoint))

\* C6 as amended: a failure of the upload check, of the read of the upload or
\* of the generation call is answered with status 500, the detail being the
\* prefix of the endpoint followed by the text of the exception; a failure of
\* the validation call is answered with status 200 and the rejection message;
\* and status 500 is returned only after a failure.
C6_FailureResponses ==
    LET request == response.request
        prefix == ErrorPrefix(request.endpoint)
    IN  Responded =>
          /\ request.failures \cap {"upload", "read", "generation"} # {}
                => /\ response.status = 500
                   /\ StartsWith(response.detail, prefix)
          /\ "generation" \in request.failures
                => response.detail = prefix \o ModelError
          /\ "read" \in request.failures
                => response.detail = prefix \o ReadErrorText
          /\ request.failures = {"validation"}
                => /\ response.status = 200
                   /\ response.answer =
                          create_rejection_message(SubjectOf(request.endpoint),
                                                   request.question)
                   /\ request.gen_calls = 0
          /\ response.status = 500 => request.failures # {}
          /\ response.status \in {200, 500}

\* the generation call of a text request has failed and the response is a 500
C6_Witness ==
    /\ Responded
    /\ response.status = 500
    /\ response.request.endpoint \in TextEndpoints
    /\ "generation" \in response.request.failures

\* C7: when a request is about to ask the model for an answer, its context
\* string is the concatenation, oldest first, of the lines of the last
\* min(3, n) entries of the list of its own subject (n the length of that
\* list), and is empty when the list is empty.
C7_ContextFromLastThree ==
    \A r \in RequestIds :
        reqs[r].pc = "generate" =>
            LET h == conversation_history[SubjectOf(reqs[r].endpoint)]
                n == Len(h)
            IN  reqs[r].context =
                    CASE n = 0 -> ""
                      [] n = 1 -> ContextLine(h[1])
                      [] n = 2 -> ContextLine(h[1]) \o ContextLine(h[2])
                      [] n >= 3 -> ContextLine(h[n - 2]) \o ContextLine(h[n - 1])
                                       \o ContextLine(h[n])

\* a request has built its context from a list of 50 entries whose last entry
\* was saved by the request before it
C7_Witness ==
    \E r \in RequestIds :
        LET h == conversation_history[SubjectOf(reqs[r].endpoint)]
        IN  /\ reqs[r].pc = "generate"
            /\ Len(h) = HistoryCap
            /\ h[HistoryCap].answer = LongAnswer
            /\ h[HistoryCap - 1].answer = ShortAnswer
            /\ Len(reqs[r].context) > Len(LongAnswer)

\* C8 as claimed: when the validator of /math-physics or /chemistry has asked
\* the model and the model has replied, the question is accepted if and only
\* if the reply, stripped and in upper case, is RELEVANT; in particular a
\* reply of NOT_RELEVANT leads to the rejection.
C8_AcceptedIffRelevant ==
    \A r \in RequestIds :
        (/\ reqs[r].pc \in {"context", "reject"}
         /\ reqs[r].endpoint \in {"/math-physics", "/chemistry"}
         /\ reqs[r].val_calls = 1
         /\ reqs[r].failures = {})
        => /\ reqs[r].pc = "context" <=> Upper(Strip(reqs[r].verdict)) = "RELEVANT"
           /\ reqs[r].verdict = "NOT_RELEVANT" => reqs[r].pc = "reject"

C10_NoRetry ==
    /\ [](\A request \in {reqs[r] : r \in RequestIds} \cup {response.request} :
            /\ request.val_calls \in {0, 1}
            /\ request.gen_calls \in {0, 1}
            /\ "validation" \in request.failures
                  => request.val_calls = 1 /\ request.gen_calls = 0
            /\ "generation" \in request.failures
                  => request.gen_calls = 1 /\ response.request = request)
    /\ [](\A r \in RequestIds : "generation" \notin reqs[r].failures)
    /\ [][\A r \in RequestIds :
            /\ reqs[r].failures # {} =>
                  reqs'[r].pc \in {"reject", "done"} /\ reqs'[r].gen_calls = 0
            /\ reqs'[r].pc \notin {"done", "idle", "validate", "check"} =>
                  /\ reqs'[r].val_calls + reqs'[r].gen_calls
                         <= reqs[r].val_calls + reqs[r].gen_calls + 1
                  /\ reqs'[r].val_calls >= reqs[r].val_calls
                  /\ reqs'[r].gen_calls >= reqs[r].gen_calls]_vars

\* a request whose validation call succeeded and whose generation call failed
\* has been answered: one call of each kind was made
C10_Witness ==
    /\ Responded
    /\ response.request.failures = {"generation"}
    /\ response.request.val_calls = 1
    /\ response.request.gen_calls = 1

\* C11 as claimed: a request to /image-analysis whose upload has a content
\* type that does not start with image/ is answered with status 400 and the
\* detail "Please upload a valid image file", and no model call was made on
\* its behalf.
C11_InvalidUploadGives400 ==
    LET request == response.request
    IN  (/\ Responded
         /\ request.endpoint = ImageEndpoint
         /\ request.content_type # PyNone
         /\ ~StartsWith(request.content_type, "image/"))
        => /\ response.status = 400
           /\ response.detail = "Please upload a valid image file"
           /\ request.val_calls = 0
           /\ request.gen_calls = 0

\* C12 as claimed: the response to GET /history/{subject} with a limit >= 0
\* is, for a known subject, status 200 with exactly the last min(limit, n)
\* entries of the list of the subject in the order of the list (n its
\* length), and for an unknown subject status 404.
C12_HistoryReturnsLastLimit ==
    \A subject \in PathSubjects :
        (response.status # 0 /\ response.request.endpoint = HistoryPath(subject)) =>
            IF subject \in Subjects
            THEN LET list == conversation_history[subject]
                     n == Len(list)
                     k == IF response.limit < n THEN response.limit ELSE n
                 IN  /\ response.status = 200
                     /\ response.subject = subject
                     /\ Len(response.history) = k
                     /\ \A i \in 1..k : response.history[i] = list[n - k + i]
            ELSE response.status = 404

\* C13: when the validation call of a request to /math-physics, /chemistry or
\* /arabic raises, the request is answered with status 200 and the rejection
\* message of the subject in the language of the question, no generation call
\* is made, and no step of the request from the failure on changes a history
\* list or creates an entry.
C13_ValidationFailsClosed ==
    /\ [](\A r \in RequestIds :
            "validation" \in reqs[r].failures =>
                /\ reqs[r].pc = "reject"
                /\ reqs[r].gen_calls = 0
                /\ loop = r)
    /\ [](LET request == response.request
              subject == SubjectOf(request.endpoint)
          IN  (Responded /\ "validation" \in request.failures) =>
                /\ request.endpoint \in TextEndpoints
                /\ response.status = 200
                /\ response.answer = IF HasArabicChar(request.question)
                                     THEN messages[subject].ar
                                     ELSE messages[subject].en
                /\ request.gen_calls = 0)
    /\ [][(\E r \in RequestIds :
             "validation" \in reqs[r].failures \/ "validation" \in reqs'[r].failures)
          => /\ conversation_history' = conversation_history
             /\ saved' = saved]_vars

\* the validation call of a request to /math-physics has raised and the
\* request has been answered with the rejection message
C13_Witness ==
    /\ Responded
    /\ response.request.endpoint = "/math-physics"
    /\ response.request.failures = {"validation"}
    /\ response.request.val_calls = 1
    /\ response.answer = messages["math_physics"].en

\* the fixed rejection messages
RejectionMessages ==
    UNION {{messages[s].en, messages[s].ar} : s \in DOMAIN messages}

\* C14: no step of a text request from its arrival to its rejection changes a
\* history list or creates an entry, so the four lists are the same after a
\* rejected request as before it; no entry of a list has a rejection message
\* as its answer and no context string sent to the model contains one.
C14_RejectionNeverSaved ==
    /\ [][(\E r \in RequestIds :
             \/ reqs[r].pc \in {"validate", "reject"}
             \/ reqs'[r].pc \in {"validate", "reject"})
          => /\ conversation_history' = conversation_history
             /\ saved' = saved]_vars
    /\ [](\A s \in Subjects :
            \A i \in 1..Len(conversation_history[s]) :
                conversation_history[s][i].answer \notin RejectionMessages)
    /\ [](\A r \in RequestIds :
            reqs[r].pc = "generate" =>
                \A m \in RejectionMessages : ~Contains(reqs[r].context, m))

\* a request to /chemistry has been answered with the rejection message in
\* Arabic after an entry was saved to the math_physics list
C14_Witness ==
    /\ Responded
    /\ response.request.endpoint = "/chemistry"
    /\ response.answer = messages["chemistry"].ar
    /\ conversation_history["chemistry"] = <<>>
    /\ Len(conversation_history["math_physics"]) = HistoryCap

\* the questions that match a social pattern
SocialQuestions == {question \in Questions : is_social_interaction(question)}

ChemistryQuestions ==
    {question \in Questions : AnySearch(ch_chemistry_keywords, Lower(question))}

\* C16: for a request to /chemistry whose question matches no social pattern,
\* once validated: a question matching a chemistry keyword is accepted without
\* a validation call, also when it matches an exclusion keyword; a question
\* matching an exclusion keyword and no chemistry keyword is rejected without
\* a validation call; and the model is called for validation exactly when the
\* question matches no keyword list.
C16_ChemistryKeywordOrder ==
    \A r \in RequestIds :
        (/\ reqs[r].endpoint = "/chemistry"
         /\ reqs[r].pc \notin {"idle", "validate", "done"}
         /\ reqs[r].question \notin SocialQuestions)
        => LET question == reqs[r].question
               chemistry == question \in ChemistryQuestions
               excluded == question \in ExcludedQuestions["/chemistry"]
           IN  /\ chemistry => reqs[r].pc # "reject" /\ reqs[r].val_calls = 0
               /\ (excluded /\ ~chemistry)
                     => reqs[r].pc = "reject" /\ reqs[r].val_calls = 0
               /\ reqs[r].val_calls = 1 <=> (~chemistry /\ ~excluded)

\* a question matching a chemistry keyword and a math/physics keyword, and no
\* social pattern, has been accepted at /chemistry without a validation call
C16_Witness ==
    \E r \in RequestIds :
        /\ reqs[r].pc = "context"
        /\ reqs[r].endpoint = "/chemistry"
        /\ reqs[r].question \notin SocialQuestions
        /\ reqs[r].question \in ChemistryQuestions
        /\ reqs[r].question \in ExcludedQuestions["/chemistry"]
        /\ reqs[r].val_calls = 0

\* C17 as claimed: every response with status 200 to a POST request carries
\* the subject of the endpoint in its subject field, which is therefore one
\* of the four subjects.
C17_SubjectIsEndpointLabel ==
    (Responded /\ response.status = 200) =>
        /\ response.subject = SubjectOf(response.request.endpoint)
        /\ response.subject \in Subjects

\* C17 as amended: a response with status 200 to a POST request carries the
\* subject of the endpoint in its subject field, except the rejection of
\* /arabic, which carries "rejected" (a rejection being a response given
\* without a generation call, its answer a rejection message).
C17_SubjectLabel ==
    (Responded /\ response.status = 200) =>
        LET request == response.request
            rejection == request.gen_calls = 0
        IN  /\ rejection <=> response.answer \in RejectionMessages
            /\ response.subject =
                   IF rejection /\ request.endpoint = "/arabic"
                   THEN "rejected"
                   ELSE SubjectOf(request.endpoint)

\* a request to /arabic has been rejected
C17_Witness ==
    /\ Responded
    /\ response.status = 200
    /\ response.request.endpoint = "/arabic"
    /\ response.request.gen_calls = 0
    /\ response.subject = "rejected"
====
